---- MODULE Spec2Model ----
(***************************************************************************)
(* Model of the online threat detector of                                  *)
(* src/cloud_integration/real_time_processor.py (RealTimeProcessor) and of *)
(* the detector it drives, src/anomaly_detection/temporal_models.py        *)
(* (TemporalAnomalyDetector).                                              *)
(*                                                                         *)
(* Metric values that are floats in the source (cpu_usage,                 *)
(* network_traffic, anomaly_score) are kept in hundredths, so 0.8 is 80.   *)
(***************************************************************************)
EXTENDS Integers, Sequences, FiniteSets, TLC

VARIABLES
    stream,                 \* the observations the environment will feed (fixed per run)
    n,                      \* number of process_data_point calls made so far
    data_buffer,            \* self.data_buffer
    is_trained,             \* self.is_trained
    running,                \* self.running
    alerts,                 \* self.alerts
    detector,               \* self.detector: is_fitted and the fitted scaler/forest
    fit_calls,              \* number of times detector.fit was invoked
    outcome,                \* how the last process_data_point call ended
    ret,                    \* what the last process_data_point call returned
    tick,                   \* what the last call did inside: phase, window, prediction
    monitor,                \* the frame of the last start_real_time_monitoring call
    dp,                     \* the data point last given to _calculate_severity
    sev,                    \* the points and the tier it got
    prev_same,              \* the tier of the call before, when it had the same metrics
    frames,                 \* the data frames a caller of the detector holds
    call,                   \* the last call the caller made on the detector
    mgr,                    \* a multi_cloud_analysis call of a CloudIntegrationManager
    sim                     \* a frame and the last attack a CloudEnvironmentSimulator injected

procVars == <<stream, n, data_buffer, is_trained, running, alerts, detector,
              fit_calls, outcome, ret, tick>>

sevVars == <<dp, sev, prev_same>>

detVars == <<frames, call>>

toolVars == <<mgr, sim>>

vars == <<procVars, monitor, sevVars, detVars, toolVars>>

(***************************************************************************)
(* Bounds of the model.                                                    *)
(***************************************************************************)
MaxTicks == 1012
ShortStream == 64
MaxDuration == 1
MaxRows == 6
MaxConfigs == 3
SimRows == 5
MaxAttackHours == 3

(***************************************************************************)
(* Program constants.                                                      *)
(***************************************************************************)
max_buffer_size == 1000
min_training_size == 50
predict_min_rows == 10
prediction_window == 10
window_size == 5

None == [none |-> TRUE]

(***************************************************************************)
(* The observation stream.  Observation i is the i-th dict passed to       *)
(* process_data_point.  One observation of the stream may carry a          *)
(* timestamp pd.to_datetime cannot parse; the stream either has the        *)
(* login_attempts metric in every observation or in none; the verdict is   *)
(* what the fitted isolation forest says of the observation.               *)
(***************************************************************************)
Instances == <<"web-server-1", "db-server-1", "api-server-1", "cache-server-1">>

Payloads ==
    << [cpu_usage |-> 30, network_traffic |-> 20, login_attempts |-> 3],
       [cpu_usage |-> 45, network_traffic |-> 55, login_attempts |-> 9],
       [cpu_usage |-> 97, network_traffic |-> 150, login_attempts |-> 2],
       [cpu_usage |-> 65, network_traffic |-> 40, login_attempts |-> 40],
       [cpu_usage |-> 80, network_traffic |-> 80, login_attempts |-> 15] >>

Streams ==
    [ badAt : {0, 2, 53}, hasLogins : BOOLEAN, anomEvery : {0, 3},
      length : {ShortStream} ]
    \cup
    [ badAt : {2}, hasLogins : {TRUE}, anomEvery : {3}, length : {MaxTicks} ]

IdleMonitor ==
    [ pc |-> "idle", time_left |-> 0, data_points_processed |-> 0,
      alerts_generated |-> 0, summary |-> None, aborted_in |-> "none" ]

Obs(i) ==
    LET p == Payloads[(i % Len(Payloads)) + 1]
        flagged == stream.anomEvery > 0 /\ i % stream.anomEvery = 0
        base == [ timestamp |-> [t |-> i, parseable |-> (i # stream.badAt)],
                  instance |-> Instances[(i % Len(Instances)) + 1],
                  cpu_usage |-> p.cpu_usage,
                  network_traffic |-> p.network_traffic,
                  verdict |-> IF flagged THEN -1 ELSE 1,
                  score |-> IF flagged THEN 0 - (1 + (i % 4)) ELSE 1 + (i % 4) ]
    IN IF stream.hasLogins
       THEN base @@ [login_attempts |-> p.login_attempts]
       ELSE base

(***************************************************************************)
(* TemporalAnomalyDetector                                                 *)
(***************************************************************************)

\* Columns of the DataFrame built from the rows: the keys of the dicts.  The
\* verdict and score fields are the oracle's, not columns of the data.
Columns(row) == DOMAIN row \ {"verdict", "score"}

\* pd.to_datetime raises on a value it cannot parse, else gives its instant.
ToDatetimeRaises(rows) == \E i \in 1..Len(rows) : ~rows[i].timestamp.parseable

ToDatetime(ts) == ts.t

\* The numeric columns of the raw data: the metrics.
NumericCols(row) == Columns(row) \ {"timestamp", "instance", "attack_type"}

\* A rolling statistic is NaN where its window is not full.  To stay in the
\* integers the mean over a full window is kept as the window's sum
\* (window_size times the mean) and the standard deviation as
\* window_size * sum(x^2) - sum(x)^2 (window_size * (window_size - 1) times
\* the sample variance).
NaN == [ isnan |-> TRUE, v |-> 0 ]

Num(x) == [ isnan |-> FALSE, v |-> x ]

RECURSIVE SumOver(_, _, _, _)
SumOver(rows, col, from, to) ==
    IF from > to THEN 0
    ELSE rows[from][col] + SumOver(rows, col, from + 1, to)

RECURSIVE SumSqOver(_, _, _, _)
SumSqOver(rows, col, from, to) ==
    IF from > to THEN 0
    ELSE rows[from][col] * rows[from][col] + SumSqOver(rows, col, from + 1, to)

\* data[col].rolling(window=window_size).mean() at row i
RollingMean(rows, col, i) ==
    IF i < window_size THEN NaN
    ELSE Num(SumOver(rows, col, i - window_size + 1, i))

\* data[col].rolling(window=window_size).std() at row i
RollingStd(rows, col, i) ==
    IF i < window_size THEN NaN
    ELSE LET sum == SumOver(rows, col, i - window_size + 1, i)
             sumsq == SumSqOver(rows, col, i - window_size + 1, i)
         IN Num(window_size * sumsq - sum * sum)

\* The rolling columns a metric gets.
RollingName ==
    [ cpu_usage |-> [ mean |-> "cpu_usage_rolling_mean",
                      std |-> "cpu_usage_rolling_std" ],
      network_traffic |-> [ mean |-> "network_traffic_rolling_mean",
                            std |-> "network_traffic_rolling_std" ],
      login_attempts |-> [ mean |-> "login_attempts_rolling_mean",
                           std |-> "login_attempts_rolling_std" ],
      memory_usage |-> [ mean |-> "memory_usage_rolling_mean",
                         std |-> "memory_usage_rolling_std" ],
      anomaly |-> [ mean |-> "anomaly_rolling_mean",
                    std |-> "anomaly_rolling_std" ] ]

Rolling(rows, col, stat, i) ==
    IF stat = "mean" THEN RollingMean(rows, col, i) ELSE RollingStd(rows, col, i)

\* Bfill that fills nothing: the rolling value as computed.
Bfill_nofill(rows, col, stat, i) == Rolling(rows, col, stat, i)

\* bfill of a rolling column at row i: its value, or when that is NaN the
\* next value below that is not; NaN when there is none.
RECURSIVE Bfill(_, _, _, _)
Bfill(rows, col, stat, i) ==
    IF i > Len(rows) THEN NaN
    ELSE LET value == Rolling(rows, col, stat, i)
         IN IF ~value.isnan THEN value ELSE Bfill(rows, col, stat, i + 1)

\* The rolling columns of row i, back-filled.
RollingColumns(rows, i) ==
    LET cols == NumericCols(rows[i])
        names == { RollingName[c][stat] : c \in cols, stat \in {"mean", "std"} }
    IN [ name \in names |->
           LET c == CHOOSE x \in cols : \E stat \in {"mean", "std"} :
                                           name = RollingName[x][stat]
               stat == CHOOSE y \in {"mean", "std"} : name = RollingName[c][y]
           IN Bfill(rows, c, stat, i) ]

\* Row i of the frame create_temporal_features returns: the row with the
\* timestamp converted, the calendar columns (timestamps count hours) and
\* the rolling columns.
EnhancedRow(rows, i) ==
    LET ts == ToDatetime(rows[i].timestamp)
        dow == (ts \div 24) % 7
    IN [ rows[i] EXCEPT !.timestamp = ts ] @@
       [ hour |-> ts % 24,
         day_of_week |-> dow,
         is_weekend |-> IF dow \in {5, 6} THEN 1 ELSE 0 ] @@
       RollingColumns(rows, i)

\* CreateTemporalFeatures returning the rows newest first.
CreateTemporalFeatures_newestfirst(rows) ==
    [ i \in 1..Len(rows) |-> EnhancedRow(rows, Len(rows) + 1 - i) ]

\* create_temporal_features: one enhanced row per row of the data, in order.
CreateTemporalFeatures(rows) ==
    [ i \in 1..Len(rows) |-> EnhancedRow(rows, i) ]

\* The numeric columns fit and predict select, without 'anomaly'.
FeatureCols(enhanced) ==
    IF Len(enhanced) = 0 THEN {}
    ELSE Columns(enhanced[1]) \ {"timestamp", "instance", "anomaly"}

\* The rolling columns of the enhanced rows.
RollingNames(enhanced) ==
    IF Len(enhanced) = 0 THEN {}
    ELSE { RollingName[c][stat] :
             c \in NumericCols(enhanced[1]) \cap DOMAIN RollingName,
             stat \in {"mean", "std"} }

\* A NaN among the features: rolling columns bfill found nothing to fill from.
HasNaN(enhanced) ==
    \E i \in 1..Len(enhanced), name \in RollingNames(enhanced) :
        enhanced[i][name].isnan

\* The scaler and the forest each remember the features they were fitted on:
\* scaler (StandardScaler) and feature_cols/fitted_on (IsolationForest).
NoScaler == [ cols |-> {}, on |-> <<>> ]

NewDetector ==
    [ is_fitted |-> FALSE, feature_cols |-> {}, fitted_on |-> <<>>,
      scaler |-> NoScaler ]

BatchId(enhanced) ==
    << enhanced[1].timestamp, enhanced[Len(enhanced)].timestamp, Len(enhanced) >>

\* How far fit gets: pd.to_datetime raises on an unparseable timestamp;
\* scaler.fit_transform accepts NaN; isolation_forest.fit raises on NaN.
FitStage(data) ==
    IF ToDatetimeRaises(data) THEN "to_datetime"
    ELSE IF HasNaN(CreateTemporalFeatures(data)) THEN "isolation_forest.fit"
    ELSE "done"

FitRaises(data) == FitStage(data) # "done"

\* fit: the scaler and the forest are fitted on the features of the batch; the
\* fitted state is identified by the feature columns and the batch.
Fit(det, data) ==
    LET enhanced_data == CreateTemporalFeatures(data)
    IN [ is_fitted |-> TRUE,
         feature_cols |-> FeatureCols(enhanced_data),
         fitted_on |-> BatchId(enhanced_data),
         scaler |-> [ cols |-> FeatureCols(enhanced_data),
                      on |-> BatchId(enhanced_data) ] ]

\* The detector a fit that raises leaves behind: untouched when feature
\* building raised, with the scaler refitted when the forest raised.
FitAborted(det, data) ==
    IF FitStage(data) = "isolation_forest.fit"
    THEN LET enhanced_data == CreateTemporalFeatures(data)
         IN [ det EXCEPT !.scaler = [ cols |-> FeatureCols(enhanced_data),
                                       on |-> BatchId(enhanced_data) ] ]
    ELSE det

\* PredictStage with a scaler and a forest that take any columns.
PredictStage_anycolumns(det, data) ==
    IF ~det.is_fitted THEN "is_fitted"
    ELSE IF ToDatetimeRaises(data) THEN "to_datetime"
    ELSE IF HasNaN(CreateTemporalFeatures(data)) THEN "isolation_forest.predict"
    ELSE "done"

\* PredictStage without the is_fitted guard.
PredictStage_unguarded(det, data) ==
    IF ToDatetimeRaises(data) THEN "to_datetime"
    ELSE LET enhanced_data == CreateTemporalFeatures(data)
         IN IF FeatureCols(enhanced_data) # det.scaler.cols
            THEN "scaler.transform"
            ELSE IF HasNaN(enhanced_data)
                    \/ FeatureCols(enhanced_data) # det.feature_cols
            THEN "isolation_forest.predict"
            ELSE "done"

\* How far predict gets: the is_fitted guard, pd.to_datetime, the scaler's
\* check of the feature columns against those it was fitted on, the forest's
\* check of its input (NaN, number of features).
PredictStage(det, data) ==
    IF ~det.is_fitted THEN "is_fitted"
    ELSE IF ToDatetimeRaises(data) THEN "to_datetime"
    ELSE LET enhanced_data == CreateTemporalFeatures(data)
         IN IF FeatureCols(enhanced_data) # det.scaler.cols
            THEN "scaler.transform"
            ELSE IF HasNaN(enhanced_data)
                    \/ FeatureCols(enhanced_data) # det.feature_cols
            THEN "isolation_forest.predict"
            ELSE "done"

PredictRaises(det, data) == PredictStage(det, data) # "done"

\* predict: the enhanced rows with the forest's label and score of each row;
\* an 'anomaly' column of the input is overwritten.
Predict(det, data) ==
    LET enhanced_data == CreateTemporalFeatures(data)
    IN [ i \in 1..Len(data) |->
           [ anomaly |-> data[i].verdict, anomaly_score |-> data[i].score ]
           @@ enhanced_data[i] ]

\* predict calling fit_transform: the scaler is refitted on the predicted rows.
DetectorAfterPredict_refit(det, data) == Fit(det, data)

\* predict leaves the scaler and the forest as fit left them.
DetectorAfterPredict(det, data) == det

\* create_temporal_features working on the caller's frame instead of a copy.
CallerData_inplace(data, enhanced_data) == enhanced_data

\* data = data.copy(): the columns are added to a copy, the caller's frame
\* is as it was.
CallerData(data, enhanced_data) == data

(***************************************************************************)
(* StandardScaler.fit_transform on the features of the fitting batch.  A   *)
(* column's statistics are taken over its values that are not NaN.  To     *)
(* stay in the integers the model keeps, for the standard deviation, the   *)
(* column's spread (largest minus smallest value), which is zero exactly   *)
(* when the standard deviation is; a normalized value is kept as the pair  *)
(* num, den and stands for num / den, with num = n * x - sum(x) (n times   *)
(* the centred value) and den = n * scale.                                 *)
(***************************************************************************)
AllRollingNames ==
    { RollingName[c][stat] : c \in DOMAIN RollingName, stat \in {"mean", "std"} }

Cell(row, col) == IF col \in AllRollingNames THEN row[col] ELSE Num(row[col])

RECURSIVE Moments(_, _, _)
Moments(features, col, i) ==
    IF i > Len(features) THEN [ n |-> 0, sum |-> 0, lo |-> 0, hi |-> 0 ]
    ELSE LET m == Moments(features, col, i + 1)
             c == Cell(features[i], col)
         IN IF c.isnan THEN m
            ELSE [ n |-> m.n + 1, sum |-> m.sum + c.v,
                   lo |-> IF m.n = 0 \/ c.v < m.lo THEN c.v ELSE m.lo,
                   hi |-> IF m.n = 0 \/ c.v > m.hi THEN c.v ELSE m.hi ]

\* Scale dividing by the deviation as it is.
Scale_asis(spread) == spread

\* scale_: a zero deviation is replaced by 1 (_handle_zeros_in_scale).
Scale(spread) == IF spread = 0 THEN 1 ELSE spread

Normalize(features, col, i) ==
    LET m == Moments(features, col, 1)
        c == Cell(features[i], col)
    IN IF c.isnan THEN [ isnan |-> TRUE, num |-> 0, den |-> 1 ]
       ELSE [ isnan |-> FALSE,
              num |-> m.n * c.v - m.sum,
              den |-> m.n * Scale(m.hi - m.lo) ]

FitTransform(enhanced_data) ==
    [ i \in 1..Len(enhanced_data) |->
        [ col \in FeatureCols(enhanced_data) |-> Normalize(enhanced_data, col, i) ] ]

(***************************************************************************)
(* A caller of the detector: it holds two batches and calls                *)
(* create_temporal_features, fit and predict on them in any order.  A      *)
(* batch has 1..MaxRows rows, may carry a numeric label column 'anomaly'   *)
(* and an extra metric, may have a constant cpu_usage, and may hold a      *)
(* timestamp that cannot be parsed.                                        *)
(***************************************************************************)
Flag(b) == IF b THEN 1 ELSE 0

Batches ==
    { b \in [ rows : 1..MaxRows, labelled : BOOLEAN, extra : BOOLEAN,
              flat : BOOLEAN, bad : BOOLEAN ] :
        Flag(b.labelled) + Flag(b.extra) + Flag(b.flat) + Flag(b.bad) <= 1 }

\* The second batch of a caller: shorter or longer than the rolling window,
\* of the same columns as the first or with the label column or the extra
\* metric added or removed.
SecondBatches(first) ==
    { [ first EXCEPT !.rows = r, !.bad = FALSE ] :
        r \in {window_size - 1, window_size + 1} }
    \cup { [ first EXCEPT !.rows = window_size + 1, !.bad = FALSE,
                          !.labelled = ~first.labelled ],
           [ first EXCEPT !.rows = window_size + 1, !.bad = FALSE,
                          !.extra = ~first.extra ] }

BatchRow(b, i) ==
    LET p == Payloads[(i % Len(Payloads)) + 1]
        flagged == i % 3 = 0
    IN [ timestamp |-> [t |-> 20 + i, parseable |-> ~(b.bad /\ i = 1)],
         instance |-> Instances[(i % Len(Instances)) + 1],
         cpu_usage |-> IF b.flat THEN 30 ELSE p.cpu_usage,
         network_traffic |-> p.network_traffic + i,
         login_attempts |-> p.login_attempts,
         verdict |-> IF flagged THEN -1 ELSE 1,
         score |-> IF flagged THEN 0 - (1 + (i % 4)) ELSE 1 + (i % 4) ]
       @@ (IF b.extra THEN [ memory_usage |-> 30 + 7 * (i % 3) ] ELSE <<>>)
       @@ (IF b.labelled THEN [ anomaly |-> IF flagged THEN 1 ELSE 0 ] ELSE <<>>)

Batch(b) == [ i \in 1..b.rows |-> BatchRow(b, i) ]

NoCall ==
    [ op |-> "none", arg |-> 0, raised |-> FALSE, stage |-> "none",
      result |-> <<>>, scaled |-> <<>> ]

\* detector.create_temporal_features(frames[k])
DetBuild(k) ==
    LET data == frames[k]
    IN /\ IF ToDatetimeRaises(data)
          THEN /\ call' = [ NoCall EXCEPT !.op = "build", !.arg = k,
                                          !.raised = TRUE, !.stage = "to_datetime" ]
               /\ frames' = frames
          ELSE LET enhanced_data == CreateTemporalFeatures(data)
               IN /\ call' = [ NoCall EXCEPT !.op = "build", !.arg = k,
                                             !.stage = "done",
                                             !.result = enhanced_data ]
                  /\ frames' = [ frames EXCEPT ![k] = CallerData(data, enhanced_data) ]
       /\ detector' = detector

\* detector.fit(frames[k])
DetFit(k) ==
    LET data == frames[k]
        stage == FitStage(data)
    IN IF stage = "to_datetime"
       THEN /\ call' = [ NoCall EXCEPT !.op = "fit", !.arg = k, !.raised = TRUE,
                                       !.stage = stage ]
            /\ detector' = FitAborted(detector, data)
            /\ frames' = frames
       ELSE LET enhanced_data == CreateTemporalFeatures(data)
            IN /\ call' = [ NoCall EXCEPT !.op = "fit", !.arg = k,
                                          !.raised = (stage # "done"),
                                          !.stage = stage,
                                          !.scaled = FitTransform(enhanced_data) ]
               /\ detector' = IF stage = "done" THEN Fit(detector, data)
                              ELSE FitAborted(detector, data)
               /\ frames' = [ frames EXCEPT ![k] = CallerData(data, enhanced_data) ]

\* detector.predict(frames[k])
DetPredict(k) ==
    LET data == frames[k]
        stage == PredictStage(detector, data)
    IN /\ call' = [ NoCall EXCEPT !.op = "predict", !.arg = k,
                                  !.raised = (stage # "done"),
                                  !.stage = stage,
                                  !.result = IF stage = "done"
                                             THEN Predict(detector, data)
                                             ELSE <<>> ]
       /\ detector' = IF stage = "done" THEN DetectorAfterPredict(detector, data)
                      ELSE detector
       /\ frames' = IF stage \in {"is_fitted", "to_datetime"} THEN frames
                    ELSE [ frames EXCEPT ![k] =
                             CallerData(data, CreateTemporalFeatures(data)) ]

\* A direct call on the detector touches nothing of a processor.
DetFrame ==
    UNCHANGED <<stream, n, data_buffer, is_trained, running, alerts,
                   fit_calls, outcome, ret, tick, monitor, sevVars, toolVars>>

(***************************************************************************)
(* CloudEnvironmentSimulator: attacks injected into a frame of hourly      *)
(* rows.  The frame has a RangeIndex: row i of pandas is element i + 1.    *)
(***************************************************************************)
NoSimulation ==
    [ data |-> <<>>, before |-> <<>>, op |-> "none", attack_start_idx |-> 0,
      duration_hours |-> 0, result |-> <<>> ]

\* Frames of SimRows rows; in the last variant one row is outside [0, 1].
SimFrame(v) ==
    [ i \in 1..SimRows |->
        [ cpu_usage |-> 20 + 5 * ((i + v) % 4),
          network_traffic |-> IF v = 2 /\ i = 1 THEN 150
                              ELSE 10 + 10 * ((i + v) % 3),
          login_attempts |-> 2 + ((i + v) % 3) ] ]

SimFrames == { SimFrame(v) : v \in 0..2 }

\* np.clip(x, 0, 1)
Clip(x) == IF x < 0 THEN 0 ELSE IF x > 100 THEN 100 ELSE x

\* attack_end_idx = min(attack_start_idx + duration_hours, len(data))
AttackEndIdx(data, attack_start_idx, duration_hours) ==
    IF attack_start_idx + duration_hours < Len(data)
    THEN attack_start_idx + duration_hours
    ELSE Len(data)

\* data.loc[a:b, col] selects the rows whose label is in a..b, both ends
\* included.
LocSlice(data, a, b) == { i \in 0..(Len(data) - 1) : a <= i /\ i <= b }

InjectDdosAttack(data, attack_start_idx, duration_hours) ==
    LET attack_end_idx == AttackEndIdx(data, attack_start_idx, duration_hours)
        rows == LocSlice(data, attack_start_idx, attack_end_idx)
    IN [ k \in 1..Len(data) |->
           IF k - 1 \in rows
           THEN [ data[k] EXCEPT
                    !.network_traffic = Clip(@ * 5),
                    !.cpu_usage = Clip((@ * 18) \div 10) ]
           ELSE [ data[k] EXCEPT
                    !.network_traffic = Clip(@),
                    !.cpu_usage = Clip(@) ] ]

InjectBruteForceAttack(data, attack_start_idx, duration_hours) ==
    LET attack_end_idx == AttackEndIdx(data, attack_start_idx, duration_hours)
        rows == LocSlice(data, attack_start_idx, attack_end_idx)
    IN [ k \in 1..Len(data) |->
           IF k - 1 \in rows
           THEN [ data[k] EXCEPT !.login_attempts = @ + 50 ]
           ELSE data[k] ]

\* for i in range(attack_start_idx, attack_end_idx): cpu rises with progress
InjectResourceExhaustion(data, attack_start_idx, duration_hours) ==
    LET attack_end_idx == AttackEndIdx(data, attack_start_idx, duration_hours)
    IN [ k \in 1..Len(data) |->
           IF attack_start_idx <= k - 1 /\ k - 1 < attack_end_idx
           THEN LET raised == data[k].cpu_usage
                        + (60 * (k - 1 - attack_start_idx))
                              \div (attack_end_idx - attack_start_idx)
                IN [ data[k] EXCEPT
                       !.cpu_usage = IF raised > 95 THEN 95 ELSE raised ]
           ELSE data[k] ]

\* One call of an inject_* method on the caller's frame: the method works on
\* data.copy() and returns the copy.
Inject(op, attacked) ==
    sim' = [ sim EXCEPT !.op = op, !.before = sim.data,
                        !.attack_start_idx = attacked[1],
                        !.duration_hours = attacked[2],
                        !.result = attacked[3] ]

SimFrame_unchanged ==
    UNCHANGED <<procVars, monitor, sevVars, detVars, mgr>>

InjectDdos ==
    /\ \E a \in 0..Len(sim.data), d \in 1..MaxAttackHours :
          Inject("ddos", <<a, d, InjectDdosAttack(sim.data, a, d)>>)
    /\ SimFrame_unchanged

InjectBruteForce ==
    /\ \E a \in 0..Len(sim.data), d \in 1..MaxAttackHours :
          Inject("brute_force", <<a, d, InjectBruteForceAttack(sim.data, a, d)>>)
    /\ SimFrame_unchanged

InjectExhaustion ==
    /\ \E a \in 0..Len(sim.data), d \in 1..MaxAttackHours :
          Inject("resource_exhaustion",
                 <<a, d, InjectResourceExhaustion(sim.data, a, d)>>)
    /\ SimFrame_unchanged

(***************************************************************************)
(* CloudIntegrationManager.multi_cloud_analysis: one pass of the loop per  *)
(* config.  A frame a connector returned is named by the provider and the  *)
(* iteration that collected it.                                            *)
(***************************************************************************)
\* Provider names the branches of the loop handle, and one they do not.
Supported == {"aws", "azure", "gcp"}

Providers == Supported \cup {"oracle"}

\* The local variable data: not yet assigned, None, or a collected frame.
Unbound == [ kind |-> "unbound", provider |-> "", iteration |-> 0 ]

NoData == [ kind |-> "none", provider |-> "", iteration |-> 0 ]

Collected(provider, iteration) ==
    [ kind |-> "frame", provider |-> provider, iteration |-> iteration ]

NoEntry == [ present |-> FALSE, results |-> FALSE, data |-> NoData, iteration |-> 0 ]

NoPass == [ provider |-> "", setup_ok |-> FALSE, collected |-> FALSE, wrote |-> FALSE ]

NoManager ==
    [ configs |-> <<>>, i |-> 0, data |-> Unbound, connectors |-> {},
      all_results |-> [ q \in Providers |-> NoEntry ], pc |-> "idle",
      last |-> NoPass ]

\* collect_cloud_data: None unless the provider is connected and its
\* connector returned a non-empty frame without raising.
CollectCloudData(connectors, provider, iteration, returned) ==
    IF provider \in connectors /\ returned = "frame"
    THEN Collected(provider, iteration)
    ELSE NoData

\* The value of data after the provider branches of the pass: the branches
\* assign it for a supported provider only.
DataAfterBranches(m, provider, connectors, returned) ==
    IF provider \in Supported
    THEN CollectCloudData(connectors, provider, m.i, returned)
    ELSE m.data

\* if data is not None: all_results[provider] = run_threat_detection(data);
\* run_threat_detection returns None when the detection raises.
RunAnalysis(m, provider, data, detected) ==
    IF data # NoData
    THEN [ m.all_results EXCEPT
             ![provider] = [ present |-> TRUE, results |-> detected,
                             data |-> data, iteration |-> m.i ] ]
    ELSE m.all_results

\* The body of the loop for configs[i].
LoopPass(m, setup_ok, returned, detected) ==
    LET provider == m.configs[m.i]
        connectors == IF provider \in Supported /\ setup_ok
                      THEN m.connectors \cup {provider}
                      ELSE m.connectors
        data == DataAfterBranches(m, provider, connectors, returned)
    IN IF provider \in Supported /\ ~setup_ok
       THEN \* continue
            [ m EXCEPT !.i = @ + 1,
                       !.last = [ provider |-> provider, setup_ok |-> FALSE,
                                  collected |-> FALSE, wrote |-> FALSE ] ]
       ELSE IF data = Unbound
       THEN \* UnboundLocalError leaves the method
            [ m EXCEPT !.pc = "raised",
                       !.last = [ provider |-> provider, setup_ok |-> FALSE,
                                  collected |-> FALSE, wrote |-> FALSE ] ]
       ELSE [ m EXCEPT
                !.i = @ + 1,
                !.connectors = connectors,
                !.data = data,
                !.all_results = RunAnalysis(m, provider, data, detected),
                !.last = [ provider |-> provider,
                           setup_ok |-> provider \in Supported,
                           collected |-> provider \in Supported /\ data # NoData,
                           wrote |-> data # NoData ] ]

MgrFrame == UNCHANGED <<procVars, monitor, sevVars, detVars, sim>>

MgrIteration ==
    /\ mgr.pc = "loop"
    /\ mgr.i <= Len(mgr.configs)
    /\ \E setup_ok \in BOOLEAN, returned \in {"frame", "empty", "raises"},
          detected \in BOOLEAN :
          mgr' = LoopPass(mgr, setup_ok, returned, detected)
    /\ MgrFrame

\* _generate_multi_cloud_report(all_results); return all_results
MgrReturn ==
    /\ mgr.pc = "loop"
    /\ mgr.i > Len(mgr.configs)
    /\ mgr' = [ mgr EXCEPT !.pc = "returned" ]
    /\ MgrFrame

(***************************************************************************)
(* RealTimeProcessor._calculate_severity                                   *)
(***************************************************************************)

\* data_point.get(key, default)
Get(data_point, key, default) ==
    IF key \in DOMAIN data_point THEN data_point[key] ELSE default

\* CpuPoints with inclusive comparisons.
CpuPoints_inclusive(cpu) ==
    IF cpu >= 80 THEN 3
    ELSE IF cpu >= 60 THEN 2
    ELSE IF cpu >= 40 THEN 1
    ELSE 0

CpuPoints(cpu) ==
    IF cpu > 80 THEN 3
    ELSE IF cpu > 60 THEN 2
    ELSE IF cpu > 40 THEN 1
    ELSE 0

\* NetworkPoints with the points of its two branches exchanged.
NetworkPoints_swapped(network) ==
    IF network > 80 THEN 1
    ELSE IF network > 50 THEN 3
    ELSE 0

\* NetworkPoints with an inclusive lower threshold.
NetworkPoints_inclusive(network) ==
    IF network > 80 THEN 3
    ELSE IF network >= 50 THEN 1
    ELSE 0

NetworkPoints(network) ==
    IF network > 80 THEN 3
    ELSE IF network > 50 THEN 1
    ELSE 0

LoginPoints(logins) ==
    IF logins > 15 THEN 3
    ELSE IF logins > 8 THEN 1
    ELSE 0

\* SeverityScore that also counts a negative anomaly score.
SeverityScore_scored(data_point) ==
    LET cpu == Get(data_point, "cpu_usage", 0)
        network == Get(data_point, "network_traffic", 0)
        logins == Get(data_point, "login_attempts", 0)
    IN CpuPoints(cpu) + NetworkPoints(network) + LoginPoints(logins)
       + (IF Get(data_point, "anomaly_score", 0) < 0 THEN 1 ELSE 0)

SeverityScore(data_point) ==
    LET cpu == Get(data_point, "cpu_usage", 0)
        network == Get(data_point, "network_traffic", 0)
        logins == Get(data_point, "login_attempts", 0)
    IN CpuPoints(cpu) + NetworkPoints(network) + LoginPoints(logins)

\* SeverityTier with strict comparisons.
SeverityTier_strict(severity_score) ==
    IF severity_score > 6 THEN "CRITICAL"
    ELSE IF severity_score > 4 THEN "HIGH"
    ELSE IF severity_score > 2 THEN "MEDIUM"
    ELSE "LOW"

SeverityTier(severity_score) ==
    IF severity_score >= 6 THEN "CRITICAL"
    ELSE IF severity_score >= 4 THEN "HIGH"
    ELSE IF severity_score >= 2 THEN "MEDIUM"
    ELSE "LOW"

CalculateSeverity(data_point) == SeverityTier(SeverityScore(data_point))

NoDataPoint == [ anomaly |-> 0, anomaly_score |-> 0, instance |-> "none" ]

NoSeverity == [ score |-> 0, tier |-> "none" ]

NoPrev == [ tier |-> "none", anomaly_score |-> 0 ]

\* The three values _calculate_severity reads.
Metrics(data_point) ==
    << Get(data_point, "cpu_usage", 0),
       Get(data_point, "network_traffic", 0),
       Get(data_point, "login_attempts", 0) >>

\* The data points given to _calculate_severity: every metric below, on and
\* above each threshold, or absent; each with two scorings and origins.
Absent == 0 - 1

CpuValues == {Absent, 40, 41, 60, 61, 80, 81}

NetworkValues == {Absent, 50, 51, 80, 81}

LoginValues == {Absent, 8, 9, 15, 16}

Scorings ==
    { [ anomaly |-> -1, anomaly_score |-> -12, instance |-> "web-server-1" ],
      [ anomaly |-> 1, anomaly_score |-> 7, instance |-> "db-server-1" ] }

Field(key, v) == IF v = Absent THEN <<>> ELSE [ k \in {key} |-> v ]

Unscored == [ anomaly |-> 0, anomaly_score |-> 0, instance |-> "unknown" ]

DataPoints ==
    { Field("cpu_usage", c) @@ Field("network_traffic", w) @@
      Field("login_attempts", l) @@ Unscored :
        c \in CpuValues, w \in NetworkValues, l \in LoginValues }

\* The network traffic a data point has before an attack is injected:
\* random.uniform(0.1, 0.6) plus noise, in hundredths.
BaselineTraffic == {5, 10, 11, 16, 17, 60}

\* An injected attack point: the cpu_usage of the scenario and the data
\* point's network_traffic multiplied by 5, as _inject_attack does for 'ddos'.
AttackPoint(baseline, logins) ==
    Field("login_attempts", logins) @@
    [ cpu_usage |-> 97, network_traffic |-> 5 * baseline,
      attack_type |-> "ddos" ] @@ Unscored

AttackPoints ==
    { AttackPoint(b, l) : b \in BaselineTraffic, l \in LoginValues }

IsAttackPoint(data_point) == "attack_type" \in DOMAIN data_point

\* A call of self._calculate_severity(data_point) on the metrics under test,
\* with some scoring and origin.
Classify ==
    \E s \in Scorings :
        LET d == s @@ dp
        IN /\ dp' = d
           /\ sev' = [ score |-> SeverityScore(d), tier |-> CalculateSeverity(d) ]
           /\ prev_same' = IF sev # NoSeverity
                           THEN [ tier |-> sev.tier,
                                  anomaly_score |-> dp.anomaly_score ]
                           ELSE NoPrev
           /\ UNCHANGED <<procVars, monitor, detVars, toolVars>>

(***************************************************************************)
(* RealTimeProcessor.process_data_point                                    *)
(***************************************************************************)

\* AppendAndTrim with pop() for pop(0): the newest observation is dropped.
AppendAndTrim_poplast(buf, data_point) ==
    LET appended == Append(buf, data_point)
    IN IF Len(appended) > max_buffer_size
       THEN SubSeq(appended, 1, Len(appended) - 1)
       ELSE appended

\* self.data_buffer.append(data_point), then pop(0) when over max_buffer_size
AppendAndTrim(buf, data_point) ==
    LET appended == Append(buf, data_point)
    IN IF Len(appended) > max_buffer_size THEN Tail(appended) ELSE appended

\* ShouldTrain with the rolling window for the training threshold.
ShouldTrain_window(df, trained) == Len(df) >= window_size /\ ~trained

\* ShouldTrain with the threshold off by one.
ShouldTrain_early(df, trained) == Len(df) >= min_training_size - 1 /\ ~trained

ShouldTrain(df, trained) == Len(df) >= min_training_size /\ ~trained

\* ShouldPredict waiting for a window of observations newer than the training batch.
ShouldPredict_late(df, trained) ==
    trained /\ Len(df) > min_training_size + prediction_window

ShouldPredict(df, trained) == trained /\ Len(df) >= predict_min_rows

\* TrainingData with the recent window for the whole buffer.
TrainingData_recent(df) ==
    IF Len(df) <= prediction_window THEN df
    ELSE SubSeq(df, Len(df) - prediction_window + 1, Len(df))

\* self.detector.fit(df): the frame of the whole buffer
TrainingData(df) == df

\* df.tail(10)
RecentData(df) ==
    IF Len(df) <= prediction_window THEN df
    ELSE SubSeq(df, Len(df) - prediction_window + 1, Len(df))

\* LatestResult with iloc[0] for iloc[-1].
LatestResult_first(results) == results[1]

\* results.iloc[-1]
LatestResult(results) == results[Len(results)]

\* IsAnomalous with the label of a normal observation.
IsAnomalous_normal(latest_result) == latest_result.anomaly = 1

\* if latest_result['anomaly'] == -1
IsAnomalous(latest_result) == latest_result.anomaly = -1

\* latest_result[key] raises KeyError for a column the frame does not have
AlertRaises(latest_result) ==
    ~({"timestamp", "cpu_usage", "network_traffic", "login_attempts"}
         \subseteq DOMAIN latest_result)

BuildAlert(latest_result) ==
    [ timestamp |-> latest_result.timestamp,
      instance |-> Get(latest_result, "instance", "unknown"),
      anomaly_score |-> Get(latest_result, "anomaly_score", 0),
      cpu_usage |-> latest_result.cpu_usage,
      network_traffic |-> latest_result.network_traffic,
      login_attempts |-> latest_result.login_attempts,
      severity |-> CalculateSeverity(latest_result) ]

NoTick == [ phase |-> "none", err |-> "none", window |-> <<>>, pred |-> None ]

\* Caught with a handler that prints and raises again.
Caught_reraise(s, where) == [ s EXCEPT !.tick.err = where, !.outcome = "raised" ]

\* Caught with the observation of the failed tick taken out of the buffer.
Caught_rollback(s, where) ==
    [ s EXCEPT !.tick.err = where, !.data_buffer = data_buffer ]

\* An exception raised inside the try block is caught and printed; the call
\* goes on to its final return None.
Caught(s, where) == [ s EXCEPT !.tick.err = where ]

\* Escapes with is_trained set before fit is called.
Escapes_trained(s, where) ==
    [ s EXCEPT !.tick.err = where, !.outcome = "raised", !.is_trained = TRUE ]

\* An exception raised outside the try block leaves process_data_point.
Escapes(s, where) == [ s EXCEPT !.tick.err = where, !.outcome = "raised" ]

\* One call of process_data_point(data_point) from the current state: the new
\* value of every field it may change, how it ended and what it returned.
ProcessStep(data_point) ==
    LET buf == AppendAndTrim(data_buffer, data_point)
        df == buf
        base == [ data_buffer |-> buf, is_trained |-> is_trained,
                  detector |-> detector, alerts |-> alerts,
                  fit_calls |-> fit_calls, outcome |-> "returned",
                  ret |-> None, tick |-> [NoTick EXCEPT !.phase = "idle"] ]
    IN IF ShouldTrain(df, is_trained)
       THEN IF FitRaises(TrainingData(df))
            THEN Escapes([ base EXCEPT !.fit_calls = @ + 1,
                                        !.detector = FitAborted(detector, TrainingData(df)),
                                        !.tick.phase = "train" ], "fit")
            ELSE [ base EXCEPT !.fit_calls = @ + 1,
                               !.detector = Fit(detector, TrainingData(df)),
                               !.is_trained = TRUE,
                               !.tick.phase = "train" ]
       ELSE IF ShouldPredict(df, is_trained)
       THEN LET recent_data == RecentData(df)
                warm == [ base EXCEPT !.tick.phase = "predict",
                                      !.tick.window = recent_data ]
            IN IF PredictRaises(detector, recent_data)
               THEN Caught(warm, "predict")
               ELSE LET results == Predict(detector, recent_data)
                        latest_result == LatestResult(results)
                        scored == [ warm EXCEPT
                            !.detector = DetectorAfterPredict(detector, recent_data),
                            !.tick.pred =
                                [ timestamp |-> latest_result.timestamp,
                                  anomaly |-> latest_result.anomaly,
                                  anomaly_score |-> latest_result.anomaly_score ] ]
                    IN IF IsAnomalous(latest_result)
                       THEN IF AlertRaises(latest_result)
                            THEN Caught(scored, "alert")
                            ELSE [ scored EXCEPT
                                     !.alerts = Append(alerts, BuildAlert(latest_result)),
                                     !.ret = BuildAlert(latest_result) ]
                       ELSE scored
       ELSE base

Apply(s) ==
    /\ data_buffer' = s.data_buffer
    /\ is_trained' = s.is_trained
    /\ detector' = s.detector
    /\ alerts' = s.alerts
    /\ fit_calls' = s.fit_calls
    /\ outcome' = s.outcome
    /\ ret' = s.ret
    /\ tick' = s.tick

\* A caller feeds the next observation of the stream to process_data_point.
ProcessDataPoint ==
    /\ monitor.pc # "loop"
    /\ n < stream.length
    /\ Apply(ProcessStep(Obs(n + 1)))
    /\ n' = n + 1
    /\ monitor' = IdleMonitor
    /\ UNCHANGED <<stream, running, sevVars, detVars, toolVars>>

(***************************************************************************)
(* RealTimeProcessor.start_real_time_monitoring                            *)
(***************************************************************************)

\* simulate_real_time_data calls random.poisson, which the random module does
\* not have: building the data point raises AttributeError.
SimulateRaises == TRUE

StartMonitoring ==
    /\ monitor.pc # "loop"
    /\ \E d \in 0..MaxDuration :
         monitor' = [ pc |-> "loop", time_left |-> d,
                      data_points_processed |-> 0, alerts_generated |-> 0,
                      summary |-> None, aborted_in |-> "none" ]
    /\ running' = TRUE
    /\ UNCHANGED <<stream, n, data_buffer, is_trained, alerts, detector,
                   fit_calls, outcome, ret, tick, sevVars, detVars, toolVars>>

\* One pass of the while loop: its condition holds, a data point is generated
\* and processed, then the loop sleeps.  An exception other than
\* KeyboardInterrupt leaves start_real_time_monitoring.
MonitorIteration ==
    /\ monitor.pc = "loop"
    /\ running /\ monitor.time_left > 0
    /\ n < stream.length
    /\ UNCHANGED <<sevVars, detVars, toolVars>>
    /\ IF SimulateRaises
       THEN /\ monitor' = [ monitor EXCEPT
                             !.pc = "aborted",
                             !.aborted_in = "simulate_real_time_data" ]
            /\ UNCHANGED procVars
       ELSE LET s == ProcessStep(Obs(n + 1))
                processed == monitor.data_points_processed + 1
            IN /\ Apply(s)
               /\ n' = n + 1
               /\ monitor' =
                    IF s.outcome = "raised"
                    THEN [ monitor EXCEPT !.pc = "aborted",
                                          !.aborted_in = "process_data_point",
                                          !.data_points_processed = processed ]
                    ELSE [ monitor EXCEPT
                             !.time_left = @ - 1,
                             !.data_points_processed = processed,
                             !.alerts_generated =
                                 IF s.ret # None THEN @ + 1 ELSE @ ]
               /\ UNCHANGED <<stream, running>>

Summary ==
    [ data_points |-> monitor.data_points_processed,
      alerts |-> monitor.alerts_generated,
      alert_data |-> IF Len(alerts) <= 10 THEN alerts
                     ELSE SubSeq(alerts, Len(alerts) - 9, Len(alerts)) ]

\* After the loop: running is cleared and the summary returned.
ReturnSummary ==
    /\ running' = FALSE
    /\ monitor' = [ monitor EXCEPT !.pc = "returned", !.summary = Summary ]
    /\ UNCHANGED <<stream, n, data_buffer, is_trained, alerts, detector,
                   fit_calls, outcome, ret, tick, sevVars, detVars, toolVars>>

\* The while condition fails.
MonitorFinish ==
    /\ monitor.pc = "loop"
    /\ ~(running /\ monitor.time_left > 0)
    /\ ReturnSummary

\* KeyboardInterrupt is caught and the loop left.
MonitorInterrupt ==
    /\ monitor.pc = "loop"
    /\ running /\ monitor.time_left > 0
    /\ ReturnSummary

\* The processor as __init__ leaves it.
NewProcessor ==
    /\ n = 0
    /\ data_buffer = <<>>
    /\ is_trained = FALSE
    /\ alerts = <<>>
    /\ detector = NewDetector
    /\ fit_calls = 0
    /\ outcome = "none"
    /\ ret = None
    /\ tick = NoTick

(***************************************************************************)
(* Specification                                                           *)
(***************************************************************************)
Init ==
    /\ stream \in Streams
    /\ NewProcessor
    /\ running = FALSE
    /\ monitor = IdleMonitor
    /\ dp = NoDataPoint
    /\ sev = NoSeverity
    /\ prev_same = NoPrev
    /\ frames = <<>>
    /\ call = NoCall
    /\ mgr = NoManager
    /\ sim = NoSimulation

Next ==
    \/ ProcessDataPoint
    \/ StartMonitoring
    \/ MonitorIteration
    \/ MonitorFinish
    \/ MonitorInterrupt

Spec == Init /\ [][Next]_vars

(***************************************************************************)
(* _calculate_severity on its own: the metrics under test are drawn from   *)
(* DataPoints; the calls give them any scoring, with the processor freshly *)
(* constructed or warm (fitted, one alert raised), and between the calls   *)
(* the processor may be fed.                                               *)
(***************************************************************************)
SevTicks == 1

\* The processor after the first min_training_size + 1 observations of a
\* stream of parseable observations whose 51st is flagged.
WarmProcessor ==
    /\ n = min_training_size + 1
    /\ data_buffer = [ i \in 1..(min_training_size + 1) |-> Obs(i) ]
    /\ is_trained = TRUE
    /\ detector = Fit(NewDetector, SubSeq(data_buffer, 1, min_training_size))
    /\ alerts = << BuildAlert(LatestResult(Predict(detector, RecentData(data_buffer)))) >>
    /\ fit_calls = 1
    /\ outcome = "returned"
    /\ ret = alerts[1]
    /\ tick = [ phase |-> "predict", err |-> "none",
                window |-> RecentData(data_buffer),
                pred |-> [ timestamp |-> ret.timestamp,
                           anomaly |-> -1,
                           anomaly_score |-> ret.anomaly_score ] ]

InitSev ==
    /\ \/ /\ stream = [ badAt |-> 0, hasLogins |-> TRUE, anomEvery |-> 3,
                          length |-> SevTicks ]
          /\ NewProcessor
       \/ /\ stream = [ badAt |-> 0, hasLogins |-> TRUE, anomEvery |-> 3,
                          length |-> min_training_size + 1 + SevTicks ]
          /\ WarmProcessor
    /\ running = FALSE
    /\ monitor = IdleMonitor
    /\ dp \in DataPoints \cup AttackPoints
    /\ sev = NoSeverity
    /\ prev_same = NoPrev
    /\ frames = <<>>
    /\ call = NoCall
    /\ mgr = NoManager
    /\ sim = NoSimulation

NextSev ==
    \/ Classify
    \/ ProcessDataPoint

SpecSev == InitSev /\ [][NextSev]_vars

(***************************************************************************)
(* The detector on its own, called directly on the batches of a caller.    *)
(***************************************************************************)
InitDet ==
    /\ stream = [ badAt |-> 0, hasLogins |-> TRUE, anomEvery |-> 3,
                  length |-> 0 ]
    /\ NewProcessor
    /\ running = FALSE
    /\ monitor = IdleMonitor
    /\ dp = NoDataPoint
    /\ sev = NoSeverity
    /\ prev_same = NoPrev
    /\ \E first \in Batches :
          \E second \in SecondBatches(first) :
              frames = << Batch(first), Batch(second) >>
    /\ call = NoCall
    /\ mgr = NoManager
    /\ sim = NoSimulation

BuildFeatures == \E k \in 1..Len(frames) : DetBuild(k) /\ DetFrame

FitDetector == \E k \in 1..Len(frames) : DetFit(k) /\ DetFrame

PredictBatch == \E k \in 1..Len(frames) : DetPredict(k) /\ DetFrame

NextDet ==
    \/ BuildFeatures
    \/ FitDetector
    \/ PredictBatch

SpecDet == InitDet /\ [][NextDet]_vars

(***************************************************************************)
(* The simulator on its own: attacks injected into a generated frame.      *)
(***************************************************************************)
InitSim ==
    /\ stream = [ badAt |-> 0, hasLogins |-> TRUE, anomEvery |-> 3,
                  length |-> 0 ]
    /\ NewProcessor
    /\ running = FALSE
    /\ monitor = IdleMonitor
    /\ dp = NoDataPoint
    /\ sev = NoSeverity
    /\ prev_same = NoPrev
    /\ frames = <<>>
    /\ call = NoCall
    /\ mgr = NoManager
    /\ \E data \in SimFrames : sim = [ NoSimulation EXCEPT !.data = data ]

NextSim ==
    \/ InjectDdos
    \/ InjectBruteForce
    \/ InjectExhaustion

SpecSim == InitSim /\ [][NextSim]_vars

(***************************************************************************)
(* The manager on its own: multi_cloud_analysis over a list of configs.    *)
(***************************************************************************)
ConfigLists == UNION { [ 1..len -> Providers ] : len \in 1..MaxConfigs }

InitMgr ==
    /\ stream = [ badAt |-> 0, hasLogins |-> TRUE, anomEvery |-> 3,
                  length |-> 0 ]
    /\ NewProcessor
    /\ running = FALSE
    /\ monitor = IdleMonitor
    /\ dp = NoDataPoint
    /\ sev = NoSeverity
    /\ prev_same = NoPrev
    /\ frames = <<>>
    /\ call = NoCall
    /\ sim = NoSimulation
    /\ \E configs \in ConfigLists :
          mgr = [ NoManager EXCEPT !.configs = configs, !.i = 1, !.pc = "loop" ]

NextMgr ==
    \/ MgrIteration
    \/ MgrReturn

SpecMgr == InitMgr /\ [][NextMgr]_vars

(***************************************************************************)
(* Properties                                                              *)
(***************************************************************************)

\* The observations the buffer must hold after n calls: the last
\* min(n, max_buffer_size) of the stream, oldest first.
LastFed(k) == [ i \in 1..k |-> Obs(n - k + i) ]

Min(a, b) == IF a < b THEN a ELSE b

\* C1: while fewer than min_training_size (50) observations have been fed the
\* detector is cold: is_trained is False, detector.fit was never invoked, and
\* every call returned None without a prediction or an alert.
C1_ColdBelowTrainingSize ==
    n < min_training_size =>
        /\ ~is_trained
        /\ ~detector.is_fitted
        /\ fit_calls = 0
        /\ alerts = <<>>
        /\ tick.pred = None
        /\ (n > 0 => outcome = "returned" /\ ret = None)

C1_Witness ==
    n = min_training_size - 1 /\ outcome = "returned" /\ ~is_trained

\* C2 as stated: the 50th observation makes the detector warm and every later
\* observation yields a label/score pair for that observation.
C2_EveryLaterObservationScored ==
    /\ (n >= min_training_size => is_trained)
    /\ (n > min_training_size =>
            tick.pred # None /\ tick.pred.timestamp = ToDatetime(Obs(n).timestamp))

\* C2 amended: the 50th observation makes the detector warm unless
\* detector.fit raises on it; once warm, every observation fed runs a
\* prediction, which yields the label/score pair of that observation unless
\* feature building or prediction raises on that tick.
C2_WarmUnlessRaised ==
    /\ (n = min_training_size => tick.phase = "train")
    /\ (tick.phase = "train" => (is_trained <=> outcome = "returned"))
    /\ (is_trained => tick.phase \in {"train", "predict"})
    /\ (tick.phase = "predict" =>
            IF tick.err = "predict"
            THEN tick.pred = None
            ELSE tick.pred = [ timestamp |-> ToDatetime(Obs(n).timestamp),
                               anomaly |-> Obs(n).verdict,
                               anomaly_score |-> Obs(n).score ])

C2_Witness ==
    /\ n = min_training_size + 1
    /\ is_trained
    /\ tick.phase = "predict"
    /\ tick.pred # None

\* C3 as stated: detector.fit is invoked at most once and the fitted state is
\* the one the 50th observation produced.
C3_FitInvokedOnce ==
    /\ fit_calls <= 1
    /\ (is_trained =>
            detector = Fit(NewDetector, [ i \in 1..min_training_size |-> Obs(i) ]))

\* C3 amended: detector.fit succeeds at most once (a fit that raises leaves
\* the detector cold and fit is invoked again on the next tick); once warm
\* the detector stays warm, fit is not invoked again, and no later tick
\* changes the fitted state.
C3_FittedOnceThenFrozen ==
    [][ /\ (is_trained =>
               is_trained' /\ fit_calls' = fit_calls /\ detector' = detector)
        /\ (is_trained' <=> detector'.is_fitted) ]_vars

C3_Witness ==
    is_trained /\ fit_calls > 1 /\ tick.phase = "predict" /\ tick.pred # None

\* C4: after every call the buffer holds at most max_buffer_size (1000)
\* observations, and exactly the last min(n, 1000) observations fed, in
\* arrival order.
C4_BufferIsBoundedFifo ==
    /\ Len(data_buffer) <= max_buffer_size
    /\ data_buffer = LastFed(Min(n, max_buffer_size))

C4_Witness ==
    n > max_buffer_size /\ Len(data_buffer) = max_buffer_size

\* C5: a warm tick predicts over exactly the 10 most recent buffered
\* observations (10 >= the rolling window 5), and the alert it returns carries
\* the timestamp and the metric values of the observation passed in that call.
C5_PredictsRecentEmitsNewest ==
    tick.phase = "predict" =>
        /\ prediction_window >= window_size
        /\ Len(tick.window) = prediction_window
        /\ tick.window = LastFed(prediction_window)
        /\ (ret # None =>
               /\ ret.timestamp = ToDatetime(Obs(n).timestamp)
               /\ ret.cpu_usage = Obs(n).cpu_usage
               /\ ret.network_traffic = Obs(n).network_traffic
               /\ ret.login_attempts = Obs(n).login_attempts
               /\ ret.instance = Obs(n).instance)

C5_Witness ==
    tick.phase = "predict" /\ ret # None /\ n > max_buffer_size

\* C6: when feature building, prediction or building the alert raises in a
\* warm tick, process_data_point returns None without raising, the alerts and
\* the fitted detector are unchanged, the detector stays warm, and the next
\* observation is again put through prediction.
C6_FailedTickIsSkipped ==
    [][ /\ (n' = n + 1 /\ is_trained /\ tick'.err # "none" =>
               /\ outcome' = "returned"
               /\ ret' = None
               /\ alerts' = alerts
               /\ is_trained'
               /\ detector' = detector)
        /\ (n' = n + 1 /\ is_trained /\ tick.err # "none" =>
               /\ tick'.phase = "predict"
               /\ tick'.window = RecentData(data_buffer')) ]_vars

C6_Witness ==
    is_trained /\ tick.phase = "predict" /\ tick.err = "alert"
        /\ tick.pred # None /\ tick.pred.anomaly = -1

\* C7: no failure while processing an observation leaves process_data_point,
\* and none ends the monitoring loop.
C7_NoFailureEscapes ==
    /\ outcome # "raised"
    /\ monitor.aborted_in # "process_data_point"

\* The points of the rule table: one per cpu threshold passed; for network
\* and logins one for the lower threshold and two more for the upper.
Passed(thresholds, x) == Cardinality({ t \in thresholds : x > t })

TablePoints(m) ==
    Passed({40, 60, 80}, m[1])
    + Passed({50}, m[2]) + 2 * Passed({80}, m[2])
    + Passed({8}, m[3]) + 2 * Passed({15}, m[3])

\* C8: the points _calculate_severity accumulates are those of the rule table,
\* with strict comparisons, summed over the three metrics (0..9).
C8_PointsFollowRuleTable ==
    sev # NoSeverity =>
        /\ sev.score = TablePoints(Metrics(dp))
        /\ sev.score \in 0..9

C8_Witness ==
    /\ sev # NoSeverity
    /\ Metrics(dp) = <<80, 80, 15>>
    /\ sev.score = 4

\* C9: the tier follows the point total with inclusive lower bounds: 6 and
\* more is CRITICAL, 4..5 HIGH, 2..3 MEDIUM, 0..1 LOW.
C9_TierFromTotal ==
    sev # NoSeverity =>
        /\ sev.tier \in {"LOW", "MEDIUM", "HIGH", "CRITICAL"}
        /\ (sev.tier = "CRITICAL" <=> sev.score >= 6)
        /\ (sev.tier = "HIGH" <=> sev.score \in 4..5)
        /\ (sev.tier = "MEDIUM" <=> sev.score \in 2..3)
        /\ (sev.tier = "LOW" <=> sev.score \in 0..1)

C9_Witness ==
    sev # NoSeverity /\ sev.score = 6 /\ sev.tier = "CRITICAL"

\* C10: two data points with the same cpu_usage, network_traffic and
\* login_attempts get the same tier, whatever their score, label and origin
\* and whatever the processor's state at each call; and a call changes no
\* state of the processor.
C10_SeverityDependsOnMetricsOnly ==
    /\ [](prev_same # NoPrev => prev_same.tier = sev.tier)
    /\ [][ dp' # dp \/ sev' # sev => UNCHANGED <<procVars, monitor>> ]_vars

C10_Witness ==
    /\ prev_same # NoPrev
    /\ prev_same.anomaly_score # dp.anomaly_score
    /\ is_trained /\ alerts # <<>>

CallData == frames[call.arg]

\* C12: a new detector is not fitted; predict on a detector that is not
\* fitted raises at its first statement and yields no rows; is_fitted turns
\* True only in a fit call that returns.
C12_PredictNeedsCompletedFit ==
    /\ [](call.op = "none" => ~detector.is_fitted)
    /\ [][ /\ (call'.op = "predict" /\ ~detector.is_fitted =>
                 /\ call'.raised
                 /\ call'.stage = "is_fitted"
                 /\ call'.result = <<>>
                 /\ detector' = detector)
           /\ (~detector.is_fitted /\ detector'.is_fitted =>
                 call'.op = "fit" /\ ~call'.raised)
           /\ (call'.op = "fit" /\ call'.raised =>
                 detector'.is_fitted = detector.is_fitted) ]_vars

C12_Witness ==
    /\ call.op = "predict" /\ call.raised /\ call.stage = "is_fitted"
    /\ ~detector.is_fitted
    /\ detector.scaler # NoScaler

\* C13: predict on data whose feature columns are not those of the fit
\* raises before any row is scored, yields no rows and leaves the detector
\* as it was.
C13_SchemaMismatchRaises ==
    [][ /\ call'.op = "predict"
        /\ detector.is_fitted
        /\ ~ToDatetimeRaises(frames[call'.arg])
        /\ FeatureCols(CreateTemporalFeatures(frames[call'.arg]))
               # detector.feature_cols
        => /\ call'.raised
           /\ call'.stage \in {"scaler.transform", "isolation_forest.predict"}
           /\ call'.result = <<>>
           /\ detector' = detector ]_vars

C13_Witness ==
    /\ call.op = "predict" /\ call.raised /\ call.stage = "scaler.transform"
    /\ detector.is_fitted
    /\ "memory_usage" \in detector.feature_cols
    /\ "memory_usage" \notin DOMAIN CallData[1]

\* C14: create_temporal_features returns one row per row of its input, in
\* the input's order, each with the input row's values; predict returns one
\* row per input row, in order, with a label in {-1, 1} and a score.
C14_OneRowPerObservation ==
    call.op \in {"build", "predict"} /\ ~call.raised =>
        /\ Len(call.result) = Len(CallData)
        /\ \A i \in 1..Len(CallData) :
             /\ call.result[i].timestamp = ToDatetime(CallData[i].timestamp)
             /\ \A col \in Columns(CallData[i]) \ {"timestamp", "anomaly"} :
                    call.result[i][col] = CallData[i][col]
             /\ (call.op = "predict" =>
                    /\ call.result[i].anomaly \in {-1, 1}
                    /\ call.result[i].anomaly = CallData[i].verdict
                    /\ call.result[i].anomaly_score = CallData[i].score)

C14_Witness ==
    /\ call.op = "predict" /\ ~call.raised
    /\ Len(call.result) = window_size + 1
    /\ call.result[3].anomaly = -1

\* C15: in the rows create_temporal_features returns for at least W = 5
\* observations, every rolling mean and rolling std of rows 1..W-1 is the one
\* of row W, which is the statistic of the first W observations.
C15_BackFillInvariant ==
    call.op = "build" /\ ~call.raised /\ Len(call.result) >= window_size =>
        \A c \in NumericCols(CallData[1]), stat \in {"mean", "std"} :
            /\ call.result[window_size][RollingName[c][stat]]
                   = Rolling(CallData, c, stat, window_size)
            /\ ~call.result[window_size][RollingName[c][stat]].isnan
            /\ \A i \in 1..(window_size - 1) :
                   call.result[i][RollingName[c][stat]]
                       = call.result[window_size][RollingName[c][stat]]

C15_Witness ==
    /\ call.op = "build" /\ ~call.raised
    /\ Len(call.result) > window_size
    /\ call.result[1].network_traffic_rolling_mean
           = Num(56 + 152 + 43 + 84 + 25)
    /\ call.result[window_size + 1].network_traffic_rolling_mean
           # call.result[1].network_traffic_rolling_mean

\* C16: whatever the length of the stream, no rolling mean and no rolling
\* std of the rows create_temporal_features returns is missing.
C16_NoRollingValueMissing ==
    call.op = "build" /\ ~call.raised =>
        \A i \in 1..Len(call.result), name \in RollingNames(call.result) :
            ~call.result[i][name].isnan

\* C17: create_temporal_features takes rolling statistics of the raw metrics
\* only, not of the calendar columns and not of the label column, so the
\* feature columns of a labelled batch are those of the batch without its
\* label column.
C17_NoRollingOfLabel ==
    call.op = "build" /\ ~call.raised =>
        /\ DOMAIN call.result[1] \cap
               { "hour_rolling_mean", "hour_rolling_std",
                 "day_of_week_rolling_mean", "day_of_week_rolling_std",
                 "is_weekend_rolling_mean", "is_weekend_rolling_std",
                 "anomaly_rolling_mean", "anomaly_rolling_std" } = {}
        /\ FeatureCols(call.result) =
               {"hour", "day_of_week", "is_weekend"}
               \cup (NumericCols(CallData[1]) \ {"anomaly"})
               \cup { RollingName[c][stat] :
                        c \in NumericCols(CallData[1]) \ {"anomaly"},
                        stat \in {"mean", "std"} }

\* C18: create_temporal_features, fit and predict leave the caller's data as
\* it was, and create_temporal_features leaves the detector as it was.
C18_NoSideEffects ==
    [][ /\ frames' = frames
        /\ (call'.op = "build" => detector' = detector) ]_vars

C18_Witness ==
    /\ call.op = "fit" /\ ~call.raised
    /\ detector.is_fitted
    /\ "hour" \notin DOMAIN CallData[1]
    /\ "hour" \in detector.feature_cols

\* A feature column all of whose values over the batch are defined and equal.
ConstantColumn(features, col) ==
    \A i \in 1..Len(features) :
        /\ ~Cell(features[i], col).isnan
        /\ Cell(features[i], col) = Cell(features[1], col)

\* C19: normalizing the fitting batch gives 0, with a divisor that is not
\* zero, in every row of a feature column that is constant over the batch.
C19_ConstantColumnNormalizesToZero ==
    call.op = "fit" /\ call.scaled # <<>> =>
        \A col \in FeatureCols(CreateTemporalFeatures(CallData)) :
            ConstantColumn(CreateTemporalFeatures(CallData), col) =>
                \A i \in 1..Len(call.scaled) :
                    /\ ~call.scaled[i][col].isnan
                    /\ call.scaled[i][col].num = 0
                    /\ call.scaled[i][col].den # 0

C19_Witness ==
    /\ call.op = "fit" /\ ~call.raised
    /\ Len(call.scaled) > window_size
    /\ \A i \in 1..Len(CallData) : CallData[i].cpu_usage = 30
    /\ \A i \in 1..Len(call.scaled) :
           call.scaled[i].cpu_usage = [ isnan |-> FALSE, num |-> 0,
                                        den |-> Len(call.scaled) ]

\* C20: every alert in self.alerts has the timestamp, the label, the anomaly
\* score, a severity tier and the three metric values of its observation.
C20_AlertIsWellFormed ==
    \A i \in 1..Len(alerts) :
        /\ { "timestamp", "anomaly", "anomaly_score", "severity",
             "cpu_usage", "network_traffic", "login_attempts" }
               \subseteq DOMAIN alerts[i]
        /\ alerts[i].severity \in {"LOW", "MEDIUM", "HIGH", "CRITICAL"}

\* C21: the buffer, and with it the window a prediction is made over and the
\* batch the detector is fitted on, holds observations of one instance only.
C21_BufferOfOneInstance ==
    \A i \in 1..Len(data_buffer) :
        data_buffer[i].instance = data_buffer[1].instance

\* C22: a warm call returns an alert exactly when the prediction for the
\* newest observation is labelled -1 and nothing raised; then that alert is
\* the one element appended to self.alerts; otherwise the call returns None
\* and self.alerts is unchanged.  self.alerts only grows.
C22_AlertIffFlagged ==
    [][ /\ (n' = n + 1 /\ is_trained =>
              LET flagged == /\ tick'.pred # None
                             /\ tick'.pred.anomaly = -1
                             /\ tick'.err = "none"
              IN /\ (ret' # None <=> flagged)
                 /\ (flagged => alerts' = Append(alerts, ret'))
                 /\ (~flagged => alerts' = alerts))
        /\ Len(alerts') >= Len(alerts)
        /\ SubSeq(alerts', 1, Len(alerts)) = alerts ]_vars

C22_Witness ==
    /\ tick.phase = "predict" /\ ret # None
    /\ Len(alerts) > 1
    /\ ret = alerts[Len(alerts)]
    /\ tick.pred.anomaly = -1

\* C23: the call that trains fits on the whole buffer and emits nothing: it
\* returns None, runs no prediction and leaves self.alerts empty, also when
\* the observation that triggered it is anomalous.
C23_TrainingTickEmitsNothing ==
    tick.phase = "train" =>
        /\ ret = None
        /\ tick.pred = None
        /\ tick.window = <<>>
        /\ alerts = <<>>
        /\ (outcome = "returned" =>
               /\ is_trained
               /\ detector.fitted_on =
                      << ToDatetime(data_buffer[1].timestamp),
                         ToDatetime(data_buffer[Len(data_buffer)].timestamp),
                         Len(data_buffer) >>)

C23_Witness ==
    /\ tick.phase = "train" /\ outcome = "returned"
    /\ Obs(n).verdict = -1
    /\ ret = None /\ is_trained

\* C27: is_trained implies at least min_training_size (50) buffered
\* observations, so a warm call passes the guard len(df) >= 10 and its
\* window holds prediction_window (10) observations, no fewer than the
\* rolling window (5).
C27_WarmBufferIsLongEnough ==
    /\ (is_trained =>
           /\ Len(data_buffer) >= min_training_size
           /\ Len(data_buffer) >= predict_min_rows
           /\ Len(RecentData(data_buffer)) = prediction_window
           /\ prediction_window >= window_size)
    /\ (tick.phase = "predict" => Len(tick.window) = prediction_window)

C27_Witness ==
    /\ is_trained /\ tick.phase = "train"
    /\ Len(data_buffer) = min_training_size

\* C28: is_trained never goes back to False, is_trained implies
\* detector.is_fitted, and a call in which detector.fit raises leaves both
\* False.
C28_TrainedIsMonotonic ==
    /\ [](is_trained => detector.is_fitted)
    /\ [][ /\ (is_trained => is_trained')
           /\ (n' = n + 1 /\ tick'.err = "fit" =>
                  ~is_trained' /\ ~detector'.is_fitted) ]_vars

C28_Witness ==
    /\ tick.err = "fit" /\ outcome = "raised"
    /\ fit_calls > 1
    /\ ~is_trained /\ ~detector.is_fitted

\* C29: every call leaves its observation as the newest of the buffer, also
\* when fit or predict raised in it: a failed call still changes the buffer.
C29_AppendedBeforeProcessing ==
    [][ n' = n + 1 =>
          /\ data_buffer'[Len(data_buffer')] = Obs(n + 1)
          /\ (tick'.err # "none" =>
                 /\ data_buffer' # data_buffer
                 /\ Len(data_buffer')
                        = Min(Len(data_buffer) + 1, max_buffer_size)) ]_vars

C29_Witness ==
    /\ tick.err = "predict" /\ outcome = "returned"
    /\ ~Obs(n).timestamp.parseable
    /\ data_buffer[Len(data_buffer)] = Obs(n)

\* C24: a call of start_real_time_monitoring that has left its loop has
\* returned: running is False and its summary counts no more alerts than data
\* points and holds at most the 10 most recent alerts.
C24_MonitoringReturnsSummary ==
    monitor.pc \in {"aborted", "returned"} =>
        /\ monitor.pc = "returned"
        /\ ~running
        /\ monitor.summary.alerts <= monitor.summary.data_points
        /\ Len(monitor.summary.alert_data) <= 10
        /\ monitor.summary.alert_data
               = SubSeq(alerts, Len(alerts) - Len(monitor.summary.alert_data) + 1,
                        Len(alerts))

TierRank == [ LOW |-> 0, MEDIUM |-> 1, HIGH |-> 2, CRITICAL |-> 3 ]

\* The data point with every metric it lacks set to 0.
ZeroFilled(data_point) ==
    [ cpu_usage |-> Get(data_point, "cpu_usage", 0),
      network_traffic |-> Get(data_point, "network_traffic", 0),
      login_attempts |-> Get(data_point, "login_attempts", 0) ]

\* C30: a data point that has one metric higher than the classified one and
\* the other two equal (a missing metric counting as 0) never gets a lower
\* tier, and a data point gets the tier of itself with its missing metrics
\* set to 0.
C30_SeverityIsMonotonic ==
    sev # NoSeverity =>
        /\ \A d \in DataPoints \cup AttackPoints :
             (/\ \A k \in 1..3 : Metrics(d)[k] >= Metrics(dp)[k]
              /\ Cardinality({ k \in 1..3 : Metrics(d)[k] # Metrics(dp)[k] }) <= 1)
             => TierRank[CalculateSeverity(d)] >= TierRank[sev.tier]
        /\ sev.tier = CalculateSeverity(ZeroFilled(dp))

C30_Witness ==
    /\ sev # NoSeverity
    /\ "login_attempts" \notin DOMAIN dp
    /\ Metrics(dp) = <<81, 51, 0>>
    /\ sev.tier = "HIGH"

\* C25: an entry of all_results is written for a provider only in a pass in
\* which that provider's setup succeeded and its own collection returned data,
\* and every entry is computed from data collected for its own provider in the
\* pass that wrote it.
C25_ResultsFromOwnData ==
    /\ mgr.last.wrote => mgr.last.setup_ok /\ mgr.last.collected
    /\ \A q \in Providers :
          mgr.all_results[q].present =>
              /\ mgr.all_results[q].data.provider = q
              /\ mgr.all_results[q].data.iteration = mgr.all_results[q].iteration

\* C26: inject_ddos_attack and inject_brute_force_attack change only the rows
\* attack_start_idx <= i < min(attack_start_idx + duration_hours, len(data)),
\* leave the attacked metrics of every other row as they were apart from
\* clipping, and leave the caller's frame as it was.
C26_AttackWindowIsHalfOpen ==
    sim.op \in {"ddos", "brute_force"} =>
        LET attack_end_idx == AttackEndIdx(sim.before, sim.attack_start_idx,
                                           sim.duration_hours)
        IN /\ sim.data = sim.before
           /\ Len(sim.result) = Len(sim.before)
           /\ \A k \in 1..Len(sim.before) :
                 ~(sim.attack_start_idx <= k - 1 /\ k - 1 < attack_end_idx) =>
                     IF sim.op = "ddos"
                     THEN /\ sim.result[k].network_traffic
                               = Clip(sim.before[k].network_traffic)
                          /\ sim.result[k].cpu_usage
                               = Clip(sim.before[k].cpu_usage)
                     ELSE sim.result[k].login_attempts
                               = sim.before[k].login_attempts

====
